---- MODULE Spec2Model ----
(***************************************************************************)
(* Model of the ownership visualizer (src/src/app.js and its variant       *)
(* src/unnamed/part_000): the diagram encoder, a pure recursive function   *)
(* over the ownership tree, and the presentation shell, a React component  *)
(* whose searchOwnership handler is an async function with suspension      *)
(* points at fetch, response.json(), the dynamic import of the rendering   *)
(* engine and its render call.                                             *)
(*                                                                         *)
(* JS values are modelled as follows.  A string that the code inspects     *)
(* character by character (a node name, the query text) is a sequence of   *)
(* one-character strings; a string the code only passes along (an error    *)
(* message, a type, an id) is a TLA+ string.  An object is a record and a  *)
(* missing property is a missing field.  Object references (a node's       *)
(* children) are indices into the table of nodes of the response.          *)
(***************************************************************************)
EXTENDS Integers, Sequences, FiniteSets, TLC

VARIABLES
    companyName,    \* useState(''): the query text
    ownershipData,  \* useState(null): the stored response
    loading,        \* useState(false): the in-flight flag
    error,          \* useState(''): the error message
    stats,          \* useState(null): the summary stats
    mermaidRef,     \* useRef(null): the diagram container, "null" when unmounted
    calls,          \* the invocations of searchOwnership, each with its position
    requests,       \* number of fetch() calls issued so far
    settled,        \* the search that settled last and the response it had received
    syncFlush,      \* TRUE when a setState outside an event handler renders at once
    encIn,          \* encoder harness: the response handed to the encoder
    encOut,         \* encoder harness: what the encoder returned
    overlapped,     \* TRUE once a search was accepted while another was outstanding
    exportCalls     \* the invocations of exportToPDF, each with what it did

shellVars == <<companyName, ownershipData, loading, error, stats, mermaidRef,
               calls, requests, settled, syncFlush, overlapped, exportCalls>>
encVars == <<encIn, encOut>>
vars == <<companyName, ownershipData, loading, error, stats, mermaidRef,
          calls, requests, settled, syncFlush, encIn, encOut,
          overlapped, exportCalls>>

-----------------------------------------------------------------------------
(* Bounds of the model.                                                    *)

MaxNodes == 3       \* nodes in an enumerated tree
MaxNameLen == 32    \* characters in an enumerated node name
MaxCalls == 3       \* searches accepted in one behaviour
MaxOverlap == 2     \* searches accepted in one behaviour when they may overlap
MaxExports == 1     \* invocations of exportToPDF in one behaviour
MaxExportSearches == 1  \* searches accepted in one behaviour that also exports
StackLimit == 6     \* frames the JS engine allows generateMermaidDiagram

-----------------------------------------------------------------------------
(* JS values.                                                              *)

Undefined == "undefined"
NullData == [null |-> TRUE]     \* useState(null)
NullId == <<>>                  \* parentId = null

\* Truthiness of a value that is null or a string: `if (parentId)`.
Truthy(s) == s # <<>>

Get(obj, f) == IF f \in DOMAIN obj THEN obj[f] ELSE Undefined

\* Map: nodeMap.set(key, value) and nodeMap.size.
EmptyMap == <<>>
MapSet(m, k, v) == [x \in (DOMAIN m) \cup {k} |-> IF x = k THEN v ELSE m[x]]
MapSize(m) == Cardinality(DOMAIN m)

-----------------------------------------------------------------------------
(* The diagram encoder.                                                    *)

\* A plausible slip: the non-UK case is missing and falls through to UK's colour.
getNodeColorTwoKinds(type) ==
    CASE type \in {"uk_company", "non_uk_company"} -> "#3B82F6"
      [] type = "individual" -> "#10B981"
      [] OTHER -> "#6B7280"

getNodeColor(type) ==
    CASE type = "uk_company" -> "#3B82F6"
      [] type = "non_uk_company" -> "#EF4444"
      [] type = "individual" -> "#10B981"
      [] OTHER -> "#6B7280"

\* name.replace(/['"]/g, ''): every quote character is removed.
StripQuotes(name) == SelectSeq(name, LAMBDA c : c \notin {"'", "\""})

\* A plausible slip: a regular expression without the g flag removes only
\* the first quote character.
FirstQuote(name) ==
    IF \E i \in 1..Len(name) : name[i] \in {"'", "\""}
    THEN CHOOSE i \in 1..Len(name) :
            /\ name[i] \in {"'", "\""}
            /\ \A j \in 1..(i - 1) : name[j] \notin {"'", "\""}
    ELSE 0

StripFirstQuote(name) ==
    IF FirstQuote(name) = 0 THEN name
    ELSE SubSeq(name, 1, FirstQuote(name) - 1)
         \o SubSeq(name, FirstQuote(name) + 1, Len(name))

\* s.substring(0, n)
Substring0(s, n) == SubSeq(s, 1, IF Len(s) < n THEN Len(s) ELSE n)

LabelMax == 30

\* A plausible slip: stripping only the first quote.
NodeNameFirstQuoteOnly(name) == Substring0(StripFirstQuote(name), LabelMax)

\* A plausible slip: an off-by-one in the truncation.
NodeNameOffByOne(name) == Substring0(StripQuotes(name), LabelMax + 1)

\* const nodeName = node.name.replace(/['"]/g, '').substring(0, 30)
NodeName(name) == Substring0(StripQuotes(name), LabelMax)

\* const nodeId = `node_${nodeMap.size}`
NodeId(nodeMap) == <<"node_", MapSize(nodeMap)>>

NodeLine(nodeId, nodeName, type) ==
    [kind |-> "node", id |-> nodeId, label |-> nodeName, class |-> type]

EdgeLine(parentId, nodeId) ==
    [kind |-> "edge", from |-> parentId, to |-> nodeId]

\* A plausible slip: the edge is emitted for the root too.
ParentEdgeAlways(parentId, nodeId) == <<EdgeLine(parentId, nodeId)>>

\* if (parentId) { diagram += `    ${parentId} --> ${nodeId}\n`; }
ParentEdge(parentId, nodeId) ==
    IF Truthy(parentId) THEN <<EdgeLine(parentId, nodeId)>> ELSE <<>>

Thrown(kind, nodeMap) == [thrown |-> kind, diagram |-> <<>>, nodeMap |-> nodeMap]
Returned(diagram, nodeMap) == [thrown |-> "none", diagram |-> diagram, nodeMap |-> nodeMap]

RECURSIVE generateMermaidDiagram(_, _, _, _, _)
RECURSIVE ProcessChildren(_, _, _, _, _, _, _)

\* A plausible slip: the children are visited from the last to the first.
ProcessChildrenReversed(nodes, children, i, nodeId, nodeMap, depth, diagram) ==
    IF i > Len(children) THEN Returned(diagram, nodeMap)
    ELSE LET r == generateMermaidDiagram(nodes, children[Len(children) + 1 - i],
                                         nodeId, nodeMap, depth + 1)
         IN  IF r.thrown # "none" THEN r
             ELSE ProcessChildren(nodes, children, i + 1, nodeId, r.nodeMap, depth,
                                  diagram \o r.diagram)

\* for (const child of node.children) diagram += generateMermaidDiagram(child, nodeId, nodeMap)
\* from the i-th child on, `diagram` being what has been emitted for the node so far.
ProcessChildren(nodes, children, i, nodeId, nodeMap, depth, diagram) ==
    IF i > Len(children) THEN Returned(diagram, nodeMap)
    ELSE LET r == generateMermaidDiagram(nodes, children[i], nodeId, nodeMap, depth + 1)
         IN  IF r.thrown # "none" THEN r
             ELSE ProcessChildren(nodes, children, i + 1, nodeId, r.nodeMap, depth,
                                  diagram \o r.diagram)

\* generateMermaidDiagram(node, parentId, nodeMap), `node` being a reference
\* into `nodes` (0 stands for undefined) and `depth` the number of frames in use.
generateMermaidDiagram(nodes, node, parentId, nodeMap, depth) ==
    IF depth > StackLimit THEN Thrown("RangeError", nodeMap)
    ELSE IF node \notin DOMAIN nodes THEN Thrown("TypeError", nodeMap)
    ELSE
      LET n == nodes[node]
          nodeId == NodeId(nodeMap)
          map1 == MapSet(nodeMap, Get(n, "id"), nodeId)
      IN  IF "name" \notin DOMAIN n THEN Thrown("TypeError", map1)
          ELSE
            LET diagram == <<NodeLine(nodeId, NodeName(n.name), Get(n, "type"))>>
                             \o ParentEdge(parentId, nodeId)
            IN  IF "children" \notin DOMAIN n THEN Thrown("TypeError", map1)
                ELSE ProcessChildren(nodes, n.children, 1, nodeId, map1, depth, diagram)

ClassDef(type) == [kind |-> "classDef", class |-> type, fill |-> getNodeColor(type)]

\* createFullMermaidDiagram(ownershipData): 'graph TD', the walk from the
\* root with the default parentId = null and a new Map, the three classDefs.
createFullMermaidDiagram(data) ==
    LET root == IF "root_company" \in DOMAIN data THEN data.root_company ELSE 0
        r == generateMermaidDiagram(data.nodes, root, NullId, EmptyMap, 1)
    IN  IF r.thrown # "none" THEN r
        ELSE Returned(<<[kind |-> "header"]>> \o r.diagram
                        \o <<ClassDef("uk_company"), ClassDef("non_uk_company"),
                             ClassDef("individual")>>,
                      r.nodeMap)

-----------------------------------------------------------------------------
(* Inputs of the encoder: the responses the backend may send.              *)

\* The rooted trees on 1..n, given by the parent of each node but the root;
\* a node's children are in ascending order of index.
Parents(n) == { par \in [2..n -> 1..n] : \A i \in 2..n : par[i] < i }

ChildrenOf(par, n, i) ==
    SelectSeq([j \in 1..n |-> j], LAMBDA j : j > 1 /\ par[j] = i)

\* A name of length len whose q1-th character is ' and q2-th is ".
MkName(len, q1, q2) ==
    [i \in 1..len |-> IF i = q1 THEN "'" ELSE IF i = q2 THEN "\"" ELSE "a"]

QuotePositions == {0, 1, 2} \cup ((LabelMax - 1)..MaxNameLen)

AllNames ==
    { MkName(len, q1, q2) : len \in 0..MaxNameLen, q1 \in QuotePositions,
                            q2 \in QuotePositions }
    \cup { [i \in 1..len |-> "'"] : len \in 1..MaxNameLen }

\* What a node of an enumerated tree may look like, but for id and children.
Profiles ==
    { [name |-> <<"a", "b">>, type |-> "uk_company"],
      [name |-> <<"'", "c", "\"">>, type |-> "individual"],
      [name |-> MkName(LabelMax + 1, 0, 0), type |-> "trust"] }

IdChoices == {"a", "b", Undefined}

MkNode(id, profile, children) ==
    IF id = Undefined
    THEN [name |-> profile.name, type |-> profile.type, children |-> children]
    ELSE [id |-> id, name |-> profile.name, type |-> profile.type,
          children |-> children]

TreeNodes ==
    { [i \in 1..n |-> MkNode(ids[i], prof[i], ChildrenOf(par, n, i))] :
        <<n, par, ids, prof>> \in
          UNION { {n} \X Parents(n) \X [1..n -> IdChoices] \X [1..n -> Profiles] :
                  n \in 1..MaxNodes } }
-----------------------------------------------------------------------------
(* The backend's answers.                                                  *)

NotJson == [kind |-> "notjson"]         \* response.json() rejects
JsonNull == [kind |-> "null"]           \* the JSON text `null`
JsonObject(obj) == [kind |-> "object", value |-> obj]

Leaf(id, name, type) == [id |-> id, name |-> name, type |-> type, children |-> <<>>]

\* OwnershipResponse: root_company, total_nodes, processing_time (in
\* hundredths of a second), errors; `nodes` is the table the references
\* root_company and children point into.
GoodData1 ==
    [nodes |-> <<Leaf("c1", <<"a">>, "uk_company")>>, root_company |-> 1,
     total_nodes |-> 1, processing_time |-> 45, errors |-> <<>>]

GoodData2 ==
    [nodes |-> <<[id |-> "c1", name |-> <<"a", "'">>, type |-> "uk_company",
                  children |-> <<2>>],
                 Leaf("p1", <<"b">>, "individual")>>,
     root_company |-> 1, total_nodes |-> 5, processing_time |-> 123,
     errors |-> <<"x">>]

\* A node without name, and a response without root_company.
NoNameData ==
    [nodes |-> <<[id |-> "c1", type |-> "uk_company", children |-> <<>>]>>,
     root_company |-> 1, total_nodes |-> 1, processing_time |-> 45, errors |-> <<>>]

NoRootData ==
    [nodes |-> <<>>, total_nodes |-> 0, processing_time |-> 45, errors |-> <<>>]

OkBodies ==
    {JsonObject(GoodData1), JsonObject(GoodData2), JsonObject(NoNameData),
     JsonObject(NoRootData), NotJson, JsonNull}

ErrorBodies ==
    {JsonObject([detail |-> "company not found"]), JsonObject([detail |-> ""]),
     JsonObject([message |-> "oops"]), NotJson, JsonNull}

Responses ==
    { [ok |-> TRUE, body |-> b] : b \in OkBodies }
    \cup { [ok |-> FALSE, body |-> b] : b \in ErrorBodies }

NoResponse == [ok |-> FALSE, body |-> [kind |-> "none"]]    \* fetch rejected

\* The messages the shell may show.  The last four are err.message of an
\* exception the engine raises, whose text is the engine's.
EmptyQueryMessage == "Please enter a company name"
GenericMessage == "Failed to fetch ownership data"
NetworkMessage == "Failed to fetch"
SyntaxMessage == "Unexpected token < in JSON at position 0"
TypeMessage == "Cannot read properties of undefined"
RangeMessage == "Maximum call stack size exceeded"

MessageOf(thrown) ==
    CASE thrown = "TypeError" -> TypeMessage
      [] thrown = "RangeError" -> RangeMessage
      [] thrown = "SyntaxError" -> SyntaxMessage
      [] OTHER -> NetworkMessage

-----------------------------------------------------------------------------
(* The presentation shell.                                                 *)

QueryChars == {" ", "x"}
QueryStrings == UNION { [1..n -> QueryChars] : n \in 0..2 }

IsSpace(c) == c = " "

\* s.trim(): the leading and trailing whitespace is removed.
RECURSIVE TrimStart(_)
TrimStart(s) == IF s # <<>> /\ IsSpace(Head(s)) THEN TrimStart(Tail(s)) ELSE s

RECURSIVE TrimEnd(_)
TrimEnd(s) ==
    IF s # <<>> /\ IsSpace(s[Len(s)]) THEN TrimEnd(SubSeq(s, 1, Len(s) - 1)) ELSE s

Trim(s) == TrimEnd(TrimStart(s))

\* A plausible slip: the query is tested without trimming.
RejectedUntrimmed(query) == query = <<>>

\* if (!companyName.trim())
Rejected(query) == Trim(query) = <<>>

\* The React state of the component, as one record.
State ==
    [ownershipData |-> ownershipData, loading |-> loading, error |-> error,
     stats |-> stats]

SetState(st) ==
    /\ ownershipData' = st.ownershipData
    /\ loading' = st.loading
    /\ error' = st.error
    /\ stats' = st.stats

\* What rendering the component with state st makes of the diagram
\* container: it is mounted while ownershipData is set, and holds the
\* spinner while loading.
Commit(ref, st) ==
    IF st.ownershipData = NullData THEN "null"
    ELSE IF ref \in {"null", "empty", "spinner"}
         THEN (IF st.loading THEN "spinner" ELSE "empty")
         ELSE ref
\* A plausible slip: the backend's detail is dropped.
ErrorMessageGeneric(errorData) == GenericMessage

\* errorData.detail || 'Failed to fetch ownership data'
ErrorMessage(errorData) ==
    IF Get(errorData, "detail") \notin {Undefined, ""}
    THEN errorData.detail
    ELSE GenericMessage

\* A plausible slip: the stats fields are taken from the wrong properties.
StatsOfSwapped(data) ==
    [totalNodes |-> Get(data, "processing_time"),
     processingTime |-> Get(data, "total_nodes"),
     errors |-> Get(data, "errors")]

\* { totalNodes: data.total_nodes, processingTime: data.processing_time, errors: data.errors }
StatsOf(data) ==
    [totalNodes |-> Get(data, "total_nodes"),
     processingTime |-> Get(data, "processing_time"),
     errors |-> Get(data, "errors")]

\* A plausible slip: the previous result is not cleared.
BeginSearchKeepsResult(st) ==
    [st EXCEPT !.loading = TRUE, !.error = "", !.stats = NullData]

\* A plausible slip: the previous stats are not cleared.
BeginSearchKeepsStats(st) ==
    [st EXCEPT !.loading = TRUE, !.error = "", !.ownershipData = NullData]

\* setLoading(true); setError(''); setOwnershipData(null); setStats(null)
BeginSearch(st) ==
    [st EXCEPT !.loading = TRUE, !.error = "", !.ownershipData = NullData,
               !.stats = NullData]

\* A plausible slip: the rejected submit also clears the previous result.
RejectQueryClears(st) ==
    [st EXCEPT !.error = EmptyQueryMessage, !.ownershipData = NullData,
               !.stats = NullData]

\* setError('Please enter a company name'); return
RejectQuery(st) == [st EXCEPT !.error = EmptyQueryMessage]

NoSettled == [call |-> 0, resp |-> NoResponse]

\* A call of searchOwnership has not reached its finally block yet.
Outstanding == \E j \in DOMAIN calls : calls[j].pc # "done"

\* onChange={(e) => setCompanyName(e.target.value)}, on an input that is
\* disabled while loading.
SetCompanyName ==
    /\ ~loading
    /\ \E q \in QueryStrings : q # companyName /\ companyName' = q
    /\ UNCHANGED <<ownershipData, loading, error, stats, mermaidRef, calls,
                   requests, settled, syncFlush, encIn, encOut,
                   overlapped, exportCalls>>

\* searchOwnership, from its call to its first await.
searchOwnership ==
    IF Rejected(companyName)
    THEN /\ SetState(RejectQuery(State))
         /\ mermaidRef' = Commit(mermaidRef, RejectQuery(State))
         /\ UNCHANGED <<companyName, calls, requests, settled, syncFlush,
                        encIn, encOut,
                   overlapped, exportCalls>>
    ELSE /\ Len(calls) < MaxCalls
         /\ SetState(BeginSearch(State))
         /\ mermaidRef' = Commit(mermaidRef, BeginSearch(State))
         /\ requests' = requests + 1
         /\ calls' = Append(calls, [pc |-> "fetch"])
         /\ overlapped' = (overlapped \/ Outstanding)
         /\ UNCHANGED <<companyName, settled, syncFlush, encIn, encOut,
                        exportCalls>>

\* A plausible slip: the controls are not disabled while loading.
SubmitAlways == searchOwnership

\* onClick={searchOwnership} on a button that is disabled while loading, and
\* Enter in the input, which is disabled while loading too.
Submit == ~loading /\ searchOwnership

\* finally { setLoading(false) }: call i is over.
Settle(i, st, ref, resp) ==
    /\ SetState([st EXCEPT !.loading = FALSE])
    /\ mermaidRef' = Commit(ref, [st EXCEPT !.loading = FALSE])
    /\ calls' = [calls EXCEPT ![i] = [pc |-> "done"]]
    /\ settled' = [call |-> i, resp |-> resp]
    /\ UNCHANGED <<companyName, requests, syncFlush, encIn, encOut,
                   overlapped, exportCalls>>

\* A plausible slip: setLoading(false) at the end of the try block instead of
\* in a finally block, so that a failed search never resets the flag.
CatchWithoutFinally(i, st, ref, message, resp) ==
    /\ SetState([st EXCEPT !.error = message])
    /\ mermaidRef' = Commit(ref, [st EXCEPT !.error = message])
    /\ calls' = [calls EXCEPT ![i] = [pc |-> "done"]]
    /\ settled' = [call |-> i, resp |-> resp]
    /\ UNCHANGED <<companyName, requests, syncFlush, encIn, encOut,
                   overlapped, exportCalls>>

\* A plausible slip: a failed search is tried again once before it is reported.
CatchRetriesOnce(i, st, ref, message, resp) ==
    IF requests <= Len(calls)
    THEN /\ requests' = requests + 1
         /\ calls' = [calls EXCEPT ![i] = [pc |-> "fetch"]]
         /\ UNCHANGED <<companyName, ownershipData, loading, error, stats,
                        mermaidRef, settled, syncFlush, encIn, encOut,
                        overlapped, exportCalls>>
    ELSE Settle(i, [st EXCEPT !.error = message], ref, resp)

\* catch (err) { setError(err.message) } and then the finally block.
Catch(i, st, ref, message, resp) ==
    Settle(i, [st EXCEPT !.error = message], ref, resp)

\* await fetch(...) rejects: a network failure.
FetchRejects(i) ==
    /\ calls[i].pc = "fetch"
    /\ Catch(i, State, mermaidRef, NetworkMessage, NoResponse)

\* await fetch(...) resolves; response.json() is awaited next.
FetchResolves(i) ==
    /\ calls[i].pc = "fetch"
    /\ \E resp \in Responses :
         calls' = [calls EXCEPT ![i] =
                     [pc |-> IF resp.ok THEN "json" ELSE "errorJson", resp |-> resp]]
    /\ UNCHANGED <<companyName, ownershipData, loading, error, stats, mermaidRef,
                   requests, settled, syncFlush, encIn, encOut,
                   overlapped, exportCalls>>

\* if (!response.ok) { const errorData = await response.json(); throw new Error(...) }
ErrorJson(i) ==
    /\ calls[i].pc = "errorJson"
    /\ LET resp == calls[i].resp
           message ==
             CASE resp.body.kind = "notjson" -> SyntaxMessage
               [] resp.body.kind = "null" -> TypeMessage
               [] OTHER -> ErrorMessage(resp.body.value)
       IN  Catch(i, State, mermaidRef, message, resp)
\* A plausible slip: renderMermaidDiagram has no catch block of its own, and
\* the engine's failure reaches the catch block of searchOwnership.
RenderFailedPropagates(i) ==
    Catch(i, State, mermaidRef, TypeMessage, calls[i].resp)

\* The catch block of renderMermaidDiagram writes the placeholder into the
\* container; with the container gone, mermaidRef.current.innerHTML throws
\* out of renderMermaidDiagram into the catch of searchOwnership.
RenderFailed(i) ==
    IF mermaidRef = "null"
    THEN Catch(i, State, mermaidRef, TypeMessage, calls[i].resp)
    ELSE Settle(i, State, "placeholder", calls[i].resp)

\* const data = await response.json(); setOwnershipData(data); setStats({...});
\* createFullMermaidDiagram(data); renderMermaidDiagram(diagramCode) up to
\* its first await, or to the end of the call when it has none.
Json(i) ==
    /\ calls[i].pc = "json"
    /\ LET resp == calls[i].resp
           data == resp.body.value
           st1 == [State EXCEPT !.ownershipData = data, !.stats = StatsOf(data)]
           diagramCode == createFullMermaidDiagram(data)
           \* mermaidRef.current at `if (mermaidRef.current)`
           ref == IF syncFlush THEN Commit(mermaidRef, st1) ELSE mermaidRef
       IN  CASE resp.body.kind = "notjson" ->
                  Catch(i, State, mermaidRef, SyntaxMessage, resp)
             [] resp.body.kind = "null" ->
                  \* setOwnershipData(null), then data.total_nodes throws
                  Catch(i, [State EXCEPT !.ownershipData = NullData], mermaidRef,
                        TypeMessage, resp)
             [] OTHER ->
                  IF diagramCode.thrown # "none"
                  THEN Catch(i, st1, mermaidRef, MessageOf(diagramCode.thrown), resp)
                  ELSE IF ref = "null"
                  THEN Settle(i, st1, mermaidRef, resp)
                  ELSE \* mermaidRef.current.innerHTML = ''; await import(...)
                       /\ SetState(st1)
                       /\ mermaidRef' = "cleared"
                       /\ calls' = [calls EXCEPT ![i] =
                                      [pc |-> "import", resp |-> resp,
                                       diagramCode |-> diagramCode.diagram]]
                       /\ UNCHANGED <<companyName, requests, settled, syncFlush,
                                      encIn, encOut, overlapped,
                                      exportCalls>>

\* await import(...) resolves and mermaid.initialize returns: the engine is
\* asked to render.
ImportResolves(i) ==
    /\ calls[i].pc = "import"
    /\ calls' = [calls EXCEPT ![i].pc = "render"]
    /\ UNCHANGED <<companyName, ownershipData, loading, error, stats, mermaidRef,
                   requests, settled, syncFlush, encIn, encOut,
                   overlapped, exportCalls>>

\* await import(...) rejects, or mermaid.initialize throws.
ImportFails(i) ==
    /\ calls[i].pc = "import"
    /\ RenderFailed(i)

\* await mermaid.render(...) resolves: mermaidRef.current.innerHTML = svg,
\* which throws into the catch block when the container is gone.
RenderResolves(i) ==
    /\ calls[i].pc = "render"
    /\ IF mermaidRef = "null"
       THEN RenderFailed(i)
       ELSE Settle(i, State, "svg", calls[i].resp)

\* await mermaid.render(...) rejects.
RenderRejects(i) ==
    /\ calls[i].pc = "render"
    /\ RenderFailed(i)

\* What one invocation of exportToPDF did: the content of the window it
\* opened ("none" when it opened none, "blank" when nothing was written to
\* it), the state of the print timer it set, and whether it called alert().
ExportCall(window, print, alert) ==
    [window |-> window, print |-> print, alert |-> alert]

\* A plausible slip: the guard of exportToPDF is missing.
ExportableAlways(ref) == TRUE

\* if (!mermaidRef.current) return;
Exportable(ref) == ref # "null"

\* exportToPDF.  window.open returns the new window, or null when the browser
\* blocks it; an exception after that (printWindow.document of null,
\* outerHTML of null) is caught and reported by alert.  processingTime is a
\* number in the stats of every response considered, so toFixed does not throw.
exportToPDF ==
    /\ Len(exportCalls) < MaxExports
    /\ \E popup \in BOOLEAN :
         exportCalls' = Append(exportCalls,
            IF ~Exportable(mermaidRef) THEN ExportCall("none", "none", FALSE)
            ELSE IF ~popup THEN ExportCall("none", "none", TRUE)
            ELSE IF mermaidRef = "null" THEN ExportCall("blank", "none", TRUE)
            ELSE ExportCall(mermaidRef, "scheduled", FALSE))
    /\ UNCHANGED <<companyName, ownershipData, loading, error, stats, mermaidRef,
                   calls, requests, settled, syncFlush, encIn, encOut, overlapped>>

\* {stats && (... <button onClick={exportToPDF}> ...)}: the button is there
\* while stats is set.
ExportClick == stats # NullData /\ exportToPDF

\* setTimeout(() => { printWindow.print(); }, 1000): the timer of export w fires.
PrintTimer(w) ==
    /\ exportCalls[w].print = "scheduled"
    /\ exportCalls' = [exportCalls EXCEPT ![w].print = "printed"]
    /\ UNCHANGED <<companyName, ownershipData, loading, error, stats, mermaidRef,
                   calls, requests, settled, syncFlush, encIn, encOut, overlapped>>

-----------------------------------------------------------------------------
(* The shell's specification: the user types and submits through the UI,   *)
(* the backend and the rendering engine answer.                            *)

NotRun == [fn |-> "none"]
EncIdle == [nodes |-> <<>>]

ShellInit ==
    /\ companyName = <<>>
    /\ ownershipData = NullData
    /\ loading = FALSE
    /\ error = ""
    /\ stats = NullData
    /\ mermaidRef = "null"
    /\ calls = <<>>
    /\ requests = 0
    /\ settled = NoSettled
    /\ overlapped = FALSE
    /\ exportCalls = <<>>

Init ==
    /\ ShellInit
    /\ syncFlush \in BOOLEAN
    /\ encIn = EncIdle
    /\ encOut = NotRun

Next ==
    \/ SetCompanyName
    \/ Submit
    \/ \E i \in DOMAIN calls : FetchRejects(i)
    \/ \E i \in DOMAIN calls : FetchResolves(i)
    \/ \E i \in DOMAIN calls : ErrorJson(i)
    \/ \E i \in DOMAIN calls : Json(i)
    \/ \E i \in DOMAIN calls : ImportResolves(i)
    \/ \E i \in DOMAIN calls : ImportFails(i)
    \/ \E i \in DOMAIN calls : RenderResolves(i)
    \/ \E i \in DOMAIN calls : RenderRejects(i)

Spec == Init /\ [][Next]_vars

\* The continuation of call i after the await it is suspended at.
Continue(i) ==
    \/ FetchRejects(i) \/ FetchResolves(i)
    \/ ErrorJson(i) \/ Json(i)
    \/ ImportResolves(i) \/ ImportFails(i)
    \/ RenderResolves(i) \/ RenderRejects(i)

\* Every promise the handler awaits (the request, the reading of the body,
\* the loading of the rendering engine, the rendering) is eventually
\* resolved or rejected, and the continuation is then run.
FairSpec ==
    /\ Init /\ [][Next]_vars
    /\ \A i \in 1..MaxCalls : WF_vars(i \in DOMAIN calls /\ Continue(i))

\* The handlers called whether or not the shell is loading, which the
\* disabled controls do not allow: the shell's behaviour when searches overlap.
SetCompanyNameAnytime ==
    /\ \E q \in QueryStrings : q # companyName /\ companyName' = q
    /\ UNCHANGED <<ownershipData, loading, error, stats, mermaidRef, calls,
                   requests, settled, syncFlush, encIn, encOut,
                   overlapped, exportCalls>>

SubmitAnytime == Len(calls) < MaxOverlap /\ searchOwnership

OpenNext ==
    \/ SetCompanyNameAnytime
    \/ SubmitAnytime
    \/ \E i \in DOMAIN calls : FetchRejects(i)
    \/ \E i \in DOMAIN calls : FetchResolves(i)
    \/ \E i \in DOMAIN calls : ErrorJson(i)
    \/ \E i \in DOMAIN calls : Json(i)
    \/ \E i \in DOMAIN calls : ImportResolves(i)
    \/ \E i \in DOMAIN calls : ImportFails(i)
    \/ \E i \in DOMAIN calls : RenderResolves(i)
    \/ \E i \in DOMAIN calls : RenderRejects(i)

OpenSpec == Init /\ [][OpenNext]_vars

\* The shell with its export: the user searches and exports through the UI,
\* and exportToPDF is also called when its button is not there.
ExportSubmit == Len(calls) < MaxExportSearches /\ Submit

ExportNext ==
    \/ SetCompanyName
    \/ ExportSubmit
    \/ \E i \in DOMAIN calls : Continue(i)
    \/ ExportClick
    \/ exportToPDF
    \/ \E w \in DOMAIN exportCalls : PrintTimer(w)

ExportSpec == Init /\ [][ExportNext]_vars

-----------------------------------------------------------------------------
(* The encoder's specification: the encoder is applied to one response     *)
(* drawn from the enumerated inputs.                                       *)

DataOf(nodes) ==
    [nodes |-> nodes, root_company |-> 1, total_nodes |-> Len(nodes),
     processing_time |-> 45, errors |-> <<>>]

NameNodes == { <<Leaf("a", name, "uk_company")>> : name \in AllNames }

MalformedNodes ==
    { NoNameData.nodes,
      <<[id |-> "a", name |-> <<"a">>, type |-> "uk_company"]>>,
      <<[id |-> "a", name |-> <<"a">>, type |-> "uk_company", children |-> <<2>>],
        [id |-> "b", type |-> "individual", children |-> <<>>]>> }

\* Node tables whose children relation has a cycle: a root that is its own
\* child, two nodes that are each other's child, and a cycle below the root.
\* JSON.parse does not produce them; a caller of the encoder can.
CyclicNodes ==
    { <<[id |-> "a", name |-> <<"a">>, type |-> "uk_company", children |-> <<1>>]>>,
      <<[id |-> "a", name |-> <<"a">>, type |-> "uk_company", children |-> <<2>>],
        [id |-> "b", name |-> <<"b">>, type |-> "individual", children |-> <<1>>]>>,
      <<[id |-> "a", name |-> <<"a">>, type |-> "uk_company", children |-> <<2>>],
        [id |-> "b", name |-> <<"b">>, type |-> "individual", children |-> <<2>>]>>,
      <<[id |-> "a", name |-> <<"a">>, type |-> "uk_company", children |-> <<2, 1>>],
        Leaf("b", <<"b">>, "individual")>> }

\* Trees in which a child with a subtree has a sibling, the children being
\* listed in either order; every node has its own name and id.
OrderedNode(id, name, type, children) ==
    [id |-> id, name |-> <<name>>, type |-> type, children |-> children]

OrderNodes ==
    { <<OrderedNode("n1", "a", "uk_company", first),
        OrderedNode("n2", "b", "individual", IF sub = 2 THEN <<4>> ELSE <<>>),
        OrderedNode("n3", "c", "non_uk_company", IF sub = 3 THEN <<4>> ELSE <<>>),
        OrderedNode("n4", "d", "individual", <<>>)>> :
        first \in {<<2, 3>>, <<3, 2>>}, sub \in {2, 3} }

EncInputs ==
    { DataOf(nodes) : nodes \in TreeNodes \cup NameNodes \cup MalformedNodes
                                \cup CyclicNodes \cup OrderNodes }
    \cup {NoRootData}

EncInit ==
    /\ ShellInit
    /\ syncFlush = FALSE
    /\ encIn \in EncInputs
    /\ encOut = NotRun

\* generateMermaidDiagram(root) with its default parentId and nodeMap.
CallGenerate ==
    /\ encOut = NotRun
    /\ "root_company" \in DOMAIN encIn
    /\ encOut' = [fn |-> "generate",
                  r |-> generateMermaidDiagram(encIn.nodes, encIn.root_company,
                                                NullId, EmptyMap, 1)]
    /\ UNCHANGED <<shellVars, encIn>>

CallCreateFull ==
    /\ encOut = NotRun
    /\ encOut' = [fn |-> "createFull", r |-> createFullMermaidDiagram(encIn)]
    /\ UNCHANGED <<shellVars, encIn>>

EncNext == CallGenerate \/ CallCreateFull

EncSpec == EncInit /\ [][EncNext]_vars
-----------------------------------------------------------------------------
(* Properties of the encoder, stated without the encoder's definitions.    *)

IsQuote(c) == c = "'" \/ c = "\""
NonQuoteCount(name) == Cardinality({ i \in 1..Len(name) : ~IsQuote(name[i]) })

\* The nodes of a tree in depth-first pre-order, children in their order.
RECURSIVE Preorder(_, _)
Preorder(nodes, stack) ==
    IF stack = <<>> THEN <<>>
    ELSE <<Head(stack)>> \o Preorder(nodes, nodes[Head(stack)].children \o Tail(stack))

EdgeCount(nodes) ==
    Cardinality({ e \in (DOMAIN nodes) \X (DOMAIN nodes) :
                    \E k \in 1..Len(nodes[e[1]].children) :
                        nodes[e[1]].children[k] = e[2] })

ParentOf(nodes, j) ==
    CHOOSE i \in DOMAIN nodes :
        \E k \in 1..Len(nodes[i].children) : nodes[i].children[k] = j

\* generateMermaidDiagram has been called on the root of a tree and returned.
Generated == encOut.fn = "generate" /\ encOut.r.thrown = "none"

GenOrder == Preorder(encIn.nodes, <<encIn.root_company>>)
GenNodeLines == SelectSeq(encOut.r.diagram, LAMBDA l : l.kind = "node")
GenEdgeLines == SelectSeq(encOut.r.diagram, LAMBDA l : l.kind = "edge")

\* The position in the pre-order of node j, and the identifier it was given.
OrderIndex(j) == CHOOSE k \in 1..Len(GenOrder) : GenOrder[k] = j
GivenId(j) == GenNodeLines[OrderIndex(j)].id

\* C2: for every tree with N nodes and E edges the encoder emits N node
\* declarations and E edge declarations; the root's declaration has no
\* edge declaration, and every other node's declaration comes with exactly
\* one edge declaration, from the identifier given to its parent to its own.
C2_NodeAndEdgeCounts ==
    Generated =>
      LET d == encOut.r.diagram
          n == Len(GenOrder)
      IN  /\ n = Len(encIn.nodes)
          /\ Len(GenNodeLines) = n
          /\ Len(GenEdgeLines) = EdgeCount(encIn.nodes)
          /\ Len(d) = 2 * n - 1
          /\ d[1].kind = "node"
          /\ \A k \in 2..n :
                /\ d[2 * k - 2].kind = "node"
                /\ d[2 * k - 1] = [kind |-> "edge",
                                    from |-> GivenId(ParentOf(encIn.nodes, GenOrder[k])),
                                    to |-> d[2 * k - 2].id]

C2_Witness ==
    /\ Generated
    /\ Len(encIn.nodes) = 3
    /\ encIn.nodes[1].children = <<2>>
    /\ encIn.nodes[2].children = <<3>>
    /\ Len(GenEdgeLines) = 2

\* C3 (as claimed): the node emitted k-th, counting from 0, is given the
\* identifier node_k, so the identifiers of one encoding are pairwise
\* distinct, whatever the nodes' external ids (repeated or missing).
C3_IdentifiersAreCounter ==
    Generated =>
      /\ \A k \in 1..Len(GenNodeLines) : GenNodeLines[k].id = <<"node_", k - 1>>
      /\ \A k, m \in 1..Len(GenNodeLines) :
            k # m => GenNodeLines[k].id # GenNodeLines[m].id

\* The external ids of the nodes of the input are present and pairwise distinct.
DistinctIds ==
    \A i, j \in DOMAIN encIn.nodes :
        /\ "id" \in DOMAIN encIn.nodes[i]
        /\ i # j => Get(encIn.nodes[i], "id") # Get(encIn.nodes[j], "id")

\* What the code does guarantee: with pairwise distinct external ids the
\* identifiers are the counter's values.
IdentifiersWhenIdsDistinct == DistinctIds => C3_IdentifiersAreCounter

\* C4 (as claimed): the label of a node whose name is longer than 30
\* characters is exactly 30 characters long, whatever the name contains.
C4_LongNameGivesThirty ==
    Generated =>
      \A k \in 1..Len(GenNodeLines) :
          Len(encIn.nodes[GenOrder[k]].name) > 30 => Len(GenNodeLines[k].label) = 30

\* C4 (amended): the label of a node whose name has more than 30 characters
\* other than ' and " is exactly 30 characters long.
C4_LongStrippedNameGivesThirty ==
    Generated =>
      \A k \in 1..Len(GenNodeLines) :
          NonQuoteCount(encIn.nodes[GenOrder[k]].name) > 30
              => Len(GenNodeLines[k].label) = 30

C4_Witness ==
    /\ Generated
    /\ Len(encIn.nodes[1].name) = 32
    /\ NonQuoteCount(encIn.nodes[1].name) = 31
    /\ Len(GenNodeLines[1].label) = 30

\* C5: no label of an emitted node declaration contains ' or ", and every
\* label is at most 30 characters long.
C5_LabelsSanitized ==
    Generated =>
      \A k \in 1..Len(GenNodeLines) :
          /\ \A i \in 1..Len(GenNodeLines[k].label) : ~IsQuote(GenNodeLines[k].label[i])
          /\ Len(GenNodeLines[k].label) <= 30

C5_Witness ==
    /\ Generated
    /\ Len(encIn.nodes[1].name) = 32
    /\ NonQuoteCount(encIn.nodes[1].name) = 30
    /\ Len(GenNodeLines[1].label) = 30
    /\ \A i \in 1..30 : GenNodeLines[1].label[i] = "a"
-----------------------------------------------------------------------------
(* Properties of the shell.                                                *)

\* The query is empty or consists of whitespace only.
Blank(query) == \A i \in 1..Len(query) : query[i] = " "

\* A search settles in this step; settled' holds the response it had received.
Settling == settled'.call # settled.call

\* C1: a submit of an empty or whitespace-only query issues no request and
\* leaves the error message non-empty, whatever the state it is made in.
C1_BlankSubmitStaysLocal ==
    [][(searchOwnership /\ Blank(companyName))
          => (requests' = requests /\ calls' = calls /\ error' # "")]_vars

\* A whitespace-only query was submitted while a search was outstanding.
C1_Witness ==
    /\ companyName = <<" ", " ">>
    /\ error = EmptyQueryMessage
    /\ loading
    /\ requests = 1

\* C10: a submit of an empty or whitespace-only query changes nothing but
\* the error message.
C10_BlankSubmitFrame ==
    [][(searchOwnership /\ Blank(companyName))
          => UNCHANGED <<companyName, ownershipData, stats, loading, mermaidRef,
                         calls, requests>>]_vars

\* An empty query was submitted with a result on display.
C10_Witness ==
    /\ companyName = <<>>
    /\ error = EmptyQueryMessage
    /\ ownershipData = GoodData2
    /\ stats # NullData
    /\ ~loading

\* C9: a submit of a non-empty query sets the in-flight flag and clears the
\* result, the error message and the stats, and they stay so while the
\* request is outstanding.
C9_SubmitClears ==
    /\ [][(searchOwnership /\ ~Blank(companyName))
            => (loading' /\ ownershipData' = NullData /\ error' = ""
                /\ stats' = NullData /\ requests' = requests + 1)]_vars
    /\ [](\A i \in DOMAIN calls :
            calls[i].pc \in {"fetch", "json", "errorJson"}
              => (loading /\ ownershipData = NullData /\ error = ""
                  /\ stats = NullData /\ mermaidRef = "null"))

\* A second search is outstanding, submitted with the first one's result on display.
C9_Witness ==
    /\ Len(calls) = 2
    /\ calls[2].pc = "fetch"
    /\ settled.call = 1
    /\ settled.resp.ok
    /\ settled.resp.body = JsonObject(GoodData2)
    /\ ownershipData = NullData

\* The response is not 2xx and its body is a JSON object with a non-empty detail.
DetailResponse(resp) ==
    /\ ~resp.ok
    /\ resp.body.kind = "object"
    /\ "detail" \in DOMAIN resp.body.value
    /\ resp.body.value.detail # ""

\* C6: when a search whose response is not 2xx and carries a non-empty
\* detail settles, the error message is that detail and the result and the
\* stats are empty.
C6_DetailIsShown ==
    [][(Settling /\ DetailResponse(settled'.resp))
          => (error' = settled'.resp.body.value.detail
              /\ ownershipData' = NullData /\ stats' = NullData)]_vars

C6_Witness ==
    /\ settled.call > 0
    /\ DetailResponse(settled.resp)
    /\ error = "company not found"
    /\ ~loading
    /\ \A i \in DOMAIN calls : calls[i].pc = "done"

\* The response is not 2xx and its body is not JSON, or is a JSON object
\* without detail.
NoDetailResponse(resp) ==
    /\ ~resp.ok
    /\ \/ resp.body.kind = "notjson"
       \/ resp.body.kind = "object" /\ "detail" \notin DOMAIN resp.body.value

\* C7 (as claimed): when a search whose response is not 2xx and has no
\* detail, or is not JSON, settles, the error message is the generic one.
C7_GenericMessage ==
    [][(Settling /\ NoDetailResponse(settled'.resp))
          => error' = "Failed to fetch ownership data"]_vars

\* What the code does guarantee: the generic message for a JSON object
\* without detail.
GenericMessageForJsonWithoutDetail ==
    [][(Settling /\ NoDetailResponse(settled'.resp)
          /\ settled'.resp.body.kind = "object")
          => error' = "Failed to fetch ownership data"]_vars

\* The response is 2xx and its body is an OwnershipResponse.
WellFormedNode(node) == {"name", "type", "children"} \subseteq DOMAIN node

SuccessResponse(resp) ==
    /\ resp.ok
    /\ resp.body.kind = "object"
    /\ {"root_company", "total_nodes", "processing_time", "errors"}
          \subseteq DOMAIN resp.body.value
    /\ \A n \in DOMAIN resp.body.value.nodes :
          WellFormedNode(resp.body.value.nodes[n])

\* C8: when a search with a successful response settles, the stored result
\* is that response, the stats are its total_nodes, processing_time and
\* errors, and the error message is empty.
C8_SuccessIsStored ==
    [][(Settling /\ SuccessResponse(settled'.resp))
          => LET data == settled'.resp.body.value
             IN  /\ ownershipData' = data
                 /\ stats' = [totalNodes |-> data.total_nodes,
                              processingTime |-> data.processing_time,
                              errors |-> data.errors]
                 /\ error' = ""]_vars

C8_Witness ==
    /\ settled.call > 0
    /\ settled.resp = [ok |-> TRUE, body |-> JsonObject(GoodData2)]
    /\ ownershipData = GoodData2
    /\ stats = [totalNodes |-> 5, processingTime |-> 123, errors |-> <<"x">>]
    /\ Len(stats.errors) = 1
    /\ error = ""
    /\ ~loading

-----------------------------------------------------------------------------
(* The full diagram.                                                       *)

\* createFullMermaidDiagram has been called on a response and returned.
Created == encOut.fn = "createFull" /\ encOut.r.thrown = "none"

\* C17: the output of createFullMermaidDiagram ends with exactly three
\* classDef lines, placed after every node and edge declaration: uk_company
\* with fill #3B82F6, non_uk_company with #EF4444 and individual with
\* #10B981, whatever the tree; the fills differ and no other class is defined.
C17_ThreeClassDefsLast ==
    Created =>
      LET d == encOut.r.diagram
          n == Len(d)
      IN  /\ n >= 5
          /\ d[n - 2] = [kind |-> "classDef", class |-> "uk_company", fill |-> "#3B82F6"]
          /\ d[n - 1] = [kind |-> "classDef", class |-> "non_uk_company", fill |-> "#EF4444"]
          /\ d[n] = [kind |-> "classDef", class |-> "individual", fill |-> "#10B981"]
          /\ d[n - 2].fill # d[n - 1].fill
          /\ d[n - 2].fill # d[n].fill
          /\ d[n - 1].fill # d[n].fill
          /\ \A k \in 2..(n - 3) : d[k].kind \in {"node", "edge"}
          /\ \A k \in 1..(n - 3) : d[k].kind # "classDef"

\* The diagram of a root with two children, one of them of an unknown type.
C17_Witness ==
    /\ Created
    /\ Len(encIn.nodes) = 3
    /\ encIn.nodes[1].children = <<2, 3>>
    /\ \E i \in DOMAIN encIn.nodes : encIn.nodes[i].type = "trust"
    /\ Len(encOut.r.diagram) = 9

\* The children of node i that are nodes of the table.
Kids(nodes, i) ==
    IF "children" \in DOMAIN nodes[i]
    THEN { nodes[i].children[k] : k \in 1..Len(nodes[i].children) } \cap DOMAIN nodes
    ELSE {}

\* The nodes reachable from the nodes of `from` in at least one step, the
\* steps through the nodes of `seen` having been taken already.
RECURSIVE Descendants(_, _, _)
Descendants(nodes, from, seen) ==
    LET next == UNION { Kids(nodes, i) : i \in from }
    IN  IF next \subseteq seen THEN seen
        ELSE Descendants(nodes, next \ seen, seen \cup next)

\* The encoder's input has a node, reachable from the root, that is
\* reachable from itself.
CyclicInput ==
    /\ "root_company" \in DOMAIN encIn
    /\ encIn.root_company \in DOMAIN encIn.nodes
    /\ \E i \in {encIn.root_company} \cup Descendants(encIn.nodes, {encIn.root_company}, {}) :
          i \in Descendants(encIn.nodes, {i}, {})

AcyclicInputTerminates ==
    (encOut.fn # "none" /\ ~CyclicInput) => encOut.r.thrown # "RangeError"

\* The label of a name: its characters other than quotes, cut at 30.
ExpectedLabel(name) ==
    LET kept == SelectSeq(name, LAMBDA c : ~IsQuote(c))
    IN  IF Len(kept) > 30 THEN SubSeq(kept, 1, 30) ELSE kept

\* C22: the node declarations are those of the tree's nodes in depth-first
\* pre-order with the children in their given order (a node before its
\* descendants, the subtree of an earlier child before that of a later
\* sibling), and every node declaration but the root's is immediately
\* followed by the edge declaration that ends in that node.
C22_PreorderAndChildOrder ==
    Generated =>
      LET d == encOut.r.diagram
          n == Len(GenOrder)
      IN  /\ Len(GenNodeLines) = n
          /\ \A k \in 1..n :
                /\ GenNodeLines[k].label = ExpectedLabel(encIn.nodes[GenOrder[k]].name)
                /\ GenNodeLines[k].class = encIn.nodes[GenOrder[k]].type
          /\ d[1].kind = "node"
          /\ \A m \in 2..Len(d) :
                /\ d[m].kind = "node" => (m < Len(d) /\ d[m + 1].kind = "edge")
                /\ d[m].kind = "edge" => (d[m - 1].kind = "node" /\ d[m].to = d[m - 1].id)

\* The root's children are listed as 3, 2 and node 3 has the child 4: the
\* declarations come in the order 1, 3, 4, 2.
C22_Witness ==
    /\ Generated
    /\ Len(encIn.nodes) = 4
    /\ encIn.nodes[1].children = <<3, 2>>
    /\ encIn.nodes[3].children = <<4>>
    /\ [k \in 1..4 |-> GenNodeLines[k].label] = <<<<"a">>, <<"c">>, <<"d">>, <<"b">>>>
    /\ Len(encOut.r.diagram) = 7

-----------------------------------------------------------------------------
(* Settling, the in-flight flag and the requests issued.                   *)

\* C11: every accepted search eventually settles with the in-flight flag
\* false, whatever the backend and the rendering engine answer, provided
\* each of them eventually resolves or rejects.
C11_EverySearchSettles ==
    \A i \in 1..MaxCalls :
        (i \in DOMAIN calls)
            ~> (i \in DOMAIN calls /\ calls[i].pc = "done" /\ ~loading)

\* A search whose rendering failed has settled, and so has one whose request
\* failed before it.
C11_Witness ==
    /\ Len(calls) = 2
    /\ calls[1].pc = "done"
    /\ calls[2].pc = "done"
    /\ settled.call = 2
    /\ mermaidRef = "placeholder"
    /\ ~loading

\* The shell displays what the search that received resp should leave: the
\* response and its stats without an error, or an error without a result.
ShownFrom(resp, data, st, err) ==
    /\ SuccessResponse(resp)
          => /\ data = resp.body.value
             /\ st = [totalNodes |-> resp.body.value.total_nodes,
                       processingTime |-> resp.body.value.processing_time,
                       errors |-> resp.body.value.errors]
             /\ err = ""
    /\ ~resp.ok => (data = NullData /\ st = NullData /\ err # "")

C13_OneSearchAtATime ==
    /\ []((\E i \in DOMAIN calls : calls[i].pc # "done") => loading)
    /\ [][(requests' # requests \/ Len(calls') # Len(calls))
            => (~loading /\ \A i \in DOMAIN calls : calls[i].pc = "done")]_vars

\* The second search awaits the rendering engine and the flag is true.
C13_Witness ==
    /\ Len(calls) = 2
    /\ calls[1].pc = "done"
    /\ calls[2].pc = "render"
    /\ loading

\* Call i settles in this step from an await of renderMermaidDiagram without
\* the engine having delivered a diagram.
EngineFailed(i) ==
    /\ calls[i].pc \in {"import", "render"}
    /\ calls'[i].pc = "done"
    /\ mermaidRef' # "svg"

\* C14: when the rendering engine fails (its loading, its initialization or
\* its render call throws), the diagram container shows the placeholder,
\* the error message stays empty, the result and the stats remain those of
\* the successful response, and the search settles.
C14_EngineFailureContained ==
    [][\A i \in DOMAIN calls :
          EngineFailed(i)
            => LET data == calls[i].resp.body.value
               IN  /\ mermaidRef' = "placeholder"
                   /\ error' = ""
                   /\ ownershipData' = data
                   /\ stats' = [totalNodes |-> data.total_nodes,
                                processingTime |-> data.processing_time,
                                errors |-> data.errors]
                   /\ ~loading'
                   /\ settled'.call = i]_vars

C14_Witness ==
    /\ settled.call = 1
    /\ settled.resp = [ok |-> TRUE, body |-> JsonObject(GoodData2)]
    /\ calls[1].pc = "done"
    /\ mermaidRef = "placeholder"
    /\ error = ""
    /\ ownershipData = GoodData2
    /\ stats.totalNodes = 5
    /\ ~loading

\* C16: each accepted submit issues exactly one request, and a request is
\* issued only by a submit of a non-blank query made while the shell is
\* interactive: none is issued on the shell's own initiative after a failure.
C16_NoAutomaticRetry ==
    /\ [](requests = Len(calls))
    /\ [][requests' # requests
            => /\ requests' = requests + 1
               /\ Len(calls') = Len(calls) + 1
               /\ ~loading /\ loading'
               /\ ~Blank(companyName)]_vars

\* A request has failed and the shell is idle with that one request issued.
C16_Witness ==
    /\ requests = 1
    /\ settled.call = 1
    /\ ~settled.resp.ok
    /\ calls = <<[pc |-> "done"]>>
    /\ error # ""
    /\ ~loading

\* C19 (as claimed): when a search with a successful response settles, the
\* diagram container holds the rendered diagram or the rendering-error
\* placeholder: the description was handed to the rendering engine.
C19_DiagramHandedToEngine ==
    [][(Settling /\ SuccessResponse(settled'.resp))
          => mermaidRef' \in {"svg", "placeholder"}]_vars

\* What the code does guarantee: the same, where a setState made after an
\* await renders the component before it returns.
DiagramHandedToEngineWhenSync ==
    [][(Settling /\ SuccessResponse(settled'.resp) /\ syncFlush)
          => mermaidRef' \in {"svg", "placeholder"}]_vars

\* The two settled states of the shell, over the values of its state.
Loaded(data, st, err) == data # NullData /\ st # NullData /\ err = ""
Errored(data, st, err) == data = NullData /\ st = NullData /\ err # ""

\* C20 (as claimed): a search settles into Loaded (result and stats
\* non-empty, error empty) or into Errored (error non-empty, result and
\* stats empty), never into a state with both a result and an error.
C20_LoadedOrErrored ==
    [][Settling => \/ Loaded(ownershipData', stats', error')
                   \/ Errored(ownershipData', stats', error')]_vars

\* What the code does guarantee: the same for every response but a 2xx one
\* with a JSON object that is not a well-formed OwnershipResponse.
LoadedOrErroredUnlessMalformed ==
    [][(Settling /\ (SuccessResponse(settled'.resp) \/ ~settled'.resp.ok
                      \/ settled'.resp.body.kind # "object"))
          => \/ Loaded(ownershipData', stats', error')
             \/ Errored(ownershipData', stats', error')]_vars

\* The response is 2xx and its body is an OwnershipResponse some node of
\* which lacks a required field.
MalformedTreeResponse(resp) ==
    /\ resp.ok
    /\ resp.body.kind = "object"
    /\ "root_company" \in DOMAIN resp.body.value
    /\ \E n \in DOMAIN resp.body.value.nodes :
          ~WellFormedNode(resp.body.value.nodes[n])

\* C21 (as claimed): when a search whose response is 2xx with a malformed
\* tree settles, the error message is non-empty, no diagram description has
\* reached the diagram container, and the tree is not stored as the result.
C21_MalformedTreeRejected ==
    [][(Settling /\ MalformedTreeResponse(settled'.resp))
          => /\ error' # ""
             /\ mermaidRef' \notin {"cleared", "svg", "placeholder"}
             /\ ownershipData' = NullData]_vars

\* What the code does guarantee: the error message is non-empty and no
\* diagram description has reached the diagram container.
MalformedTreeReported ==
    [][(Settling /\ MalformedTreeResponse(settled'.resp))
          => /\ error' # ""
             /\ mermaidRef' \notin {"cleared", "svg", "placeholder"}]_vars

\* C23: in every reachable state of the shell without overlapping searches
\* the stats are non-empty exactly when the result is: the Export control,
\* shown with the stats, is never shown without a result.
C23_StatsIffResult ==
    (stats # NullData) <=> (ownershipData # NullData)

\* A second search is under way after a successful one: both were set and
\* both have been cleared.
C23_Witness ==
    /\ Len(calls) = 2
    /\ calls[2].pc = "errorJson"
    /\ settled.call = 1
    /\ SuccessResponse(settled.resp)
    /\ stats = NullData
    /\ ownershipData = NullData

-----------------------------------------------------------------------------
(* Export.                                                                 *)

====
